---------------------------- MODULE Spec2Model ----------------------------
(***************************************************************************)
(* Model of the autoscaler experiment driver (src/autoscaler):             *)
(*   - HPASimulator (hpa_simulator.py): compute and _prune_history, with   *)
(*     the two stabilisation histories as state;                           *)
(*   - run_loop (main.py): the control loop, one action per step of an     *)
(*     iteration, with the collaborators' outcomes drawn from small sets;  *)
(*   - OllamaPredictor (ollama_predictor.py): the retry loop of predict    *)
(*     and the formula baseline of predict_from_df;                        *)
(*   - cpu_stressor.main: the refresh loop and its table of stressed pods; *)
(*   - load_generator: main, start_port_forward, run and _worker.          *)
(*                                                                         *)
(* Numbers.  CPU values are millicores and memory values MiB; the model    *)
(* draws them from integers, and writes a target utilisation as a whole    *)
(* percentage (0.60 -> 60), so that                                        *)
(*     ceil(c * usage / (request * utilisation))                           *)
(* is the exact integer ceiling of (c * usage * 100) / (request * pct).    *)
(* Inf stands for a non-finite float (the collector parses sample values   *)
(* with float(), which accepts "+Inf").  Time is in seconds.               *)
(***************************************************************************)
EXTENDS Integers, Sequences, FiniteSets, TLC

VARIABLES
    \* ---- configuration (config.py), fixed for a run
    mode,                 \* ExperimentConfig.mode
    duration_s,           \* ExperimentConfig.duration_minutes * 60
    min_replicas,         \* KubernetesConfig.min_replicas
    max_replicas,         \* KubernetesConfig.max_replicas
    cpu_target_pct,       \* HPASimulator.cpu_target_utilization, in percent
    mem_target_pct,       \* HPASimulator.memory_target_utilization, in percent
    \* ---- HPASimulator state
    scale_up_history,     \* list of <<timestamp_s, desired_replicas>>
    scale_down_history,
    \* ---- the last compute call: its arguments and what it returned
    sim_args,
    hpa_result,
    n_calls,
    now_ordered,          \* every call so far passed a timestamp_s no smaller
                          \* than the call before it
    down_calls,           \* <<timestamp_s, raw_desired>> of every scale-down-path
                          \* call so far, while now_ordered holds
    raw_up_held,          \* some call so far took the scale-up path and was
                          \* labelled no_change
    phase,                \* which specification drives the simulator
    \* ---- the cluster
    dep_replicas,         \* the Deployment's spec.replicas
    hpa_exists,           \* whether the live HPA object exists
    patches,              \* log of scale_deployment calls
    \* ---- run_loop
    pc,                   \* position of the loop
    clock,                \* seconds since start_time
    iter_start,
    iteration,
    current_replicas,
    latest,               \* df.iloc[-1], or None
    hpa_status,
    prediction,           \* the ScalingPrediction, or None
    applied,              \* applied_replicas and applied_by
    rows,                 \* the rows flushed to the CSV file
    \* ---- OllamaPredictor
    formula_baseline,     \* predict_from_df's baseline for the last call's
                          \* arguments
    attempt,              \* predict's loop variable; 0 before the call
    messages,             \* roles of the chat messages sent with a request
    n_requests,           \* chat.completions.create calls made so far
    responses,            \* the raw contents received so far
    predict_out,          \* what predict returned or raised
    \* ---- cpu_stressor.main
    args_max_pods,        \* --max-pods; 0 when the option is absent (None)
    args_workers,         \* --workers
    active,               \* pod name -> the worker ids started on it
    worker_id,
    cycles,               \* passes of the while loop so far
    stress_pc,            \* position of main
    \* ---- load_generator.main and run
    url_is_default,       \* args.url == TARGET_URL
    pf_proc,              \* the kubectl port-forward process
    pf_elapsed,           \* tenths of a second since start_port_forward
                          \* set its deadline
    requests_sent,
    counters,             \* total, ok, err
    pending,              \* the request tasks that are not done
    stop,                 \* set by the signal handler
    exit_status,          \* how main ended
    load_pc               \* position of main

sim_vars == <<scale_up_history, scale_down_history>>
cfg_vars == <<mode, duration_s, min_replicas, max_replicas,
              cpu_target_pct, mem_target_pct>>
call_vars == <<sim_args, hpa_result, n_calls, now_ordered, down_calls,
               raw_up_held,
               phase>>
cluster_vars == <<dep_replicas, hpa_exists, patches>>
loop_vars == <<pc, clock, iter_start, iteration, current_replicas, latest,
               hpa_status, prediction, applied, rows>>
predict_vars == <<attempt, messages, n_requests, responses, predict_out>>
stress_vars == <<args_max_pods, args_workers, active, worker_id, cycles,
                 stress_pc>>
load_vars == <<url_is_default, pf_proc, pf_elapsed, requests_sent, counters,
               pending, stop, exit_status, load_pc>>
tool_vars == <<predict_vars, stress_vars, load_vars>>
vars == <<cfg_vars, sim_vars, call_vars, cluster_vars, loop_vars,
          formula_baseline, tool_vars>>

-----------------------------------------------------------------------------
(* Bounds and input sets *)

MaxCalls == 3          \* compute calls made on one simulator instance
MaxCur == 12           \* largest current_replicas fed to a single compute
MaxIter == 2           \* iterations of the control loop that are explored

\* a non-finite float (float("+Inf")), kept apart from every finite value used
Inf == 1000000
None == "None"

SCALE_UP_STABILIZATION_WINDOW_S == 0
SCALE_DOWN_STABILIZATION_WINDOW_S == 60

\* <<min_replicas, max_replicas>>: the defaults, and a narrower range
KubeConfigs == {<<1, 10>>, <<2, 4>>}
\* <<cpu, memory>> target utilisation in percent (defaults 0.60 / 0.80)
TargetConfigs == {<<60, 80>>}
Modes == {"hpa_only", "ai_scaler", "comparison"}
\* what --mode may hold on the command line: a ScalingMode value or not
CliModes == Modes \cup {"unknown"}
\* <<--min-replicas, --max-replicas>> on the command line: the defaults, and
\* a lower bound above the upper bound
CliKubeConfigs == {<<1, 10>>, <<5, 2>>}

\* ExperimentConfig.interval_seconds
Interval == 30
\* duration_minutes * 60: unbounded, or one minute
DurationVals == {0, 60}
\* seconds an iteration spends waiting for Prometheus
FetchDelays == {0, 60}
\* <<cpu, cpu_request, mem, mem_request>> of the latest row
LoopSamples == { <<30, 100, 40, 100>>, <<Inf, 100, 80, 100>> }
\* recommended_replicas as validated by the schema (1..20)
PredVals == {3, 5, 12}
\* status.desired_replicas of the live HPA
HpaDesiredVals == {4}
\* the Deployment's spec.replicas when the run starts
DepVals == {0, 3}

-----------------------------------------------------------------------------
(* Arithmetic helpers *)

Max2(a, b) == IF a >= b THEN a ELSE b
Min2(a, b) == IF a <= b THEN a ELSE b

\* math.ceil(n / d) for d > 0
CeilFloor(n, d) == n \div d
Ceil(n, d) == -((-n) \div d)

\* max(min_replicas, min(max_replicas, x))
ClampLowerOnly(x) == Max2(min_replicas, x)
Clamp(x) == Max2(min_replicas, Min2(max_replicas, x))

-----------------------------------------------------------------------------
(* HPASimulator *)

\* list.remove(entry): drops the first element equal to entry
RECURSIVE RemoveFirst(_, _)
RemoveFirst(history, entry) ==
    IF history = <<>> THEN <<>>
    ELSE IF Head(history) = entry THEN Tail(history)
    ELSE <<Head(history)>> \o RemoveFirst(Tail(history), entry)

RECURSIVE RemoveEach(_, _)
RemoveEach(history, to_remove) ==
    IF to_remove = <<>> THEN history
    ELSE RemoveEach(RemoveFirst(history, Head(to_remove)), Tail(to_remove))

\* HPASimulator._prune_history
prune_historyFirstOnly(history, now, window_s) ==
    LET cutoff == now - window_s
        to_remove == SelectSeq(history, LAMBDA entry : entry[1] < cutoff)
    IN  IF to_remove = <<>> THEN history
        ELSE RemoveFirst(history, Head(to_remove))
prune_historyKeepsAll(history, now, window_s) == history
prune_historyOncePerValue(history, now, window_s) ==
    LET cutoff == now - window_s
        keep == {i \in DOMAIN history :
                    ~ /\ history[i][1] < cutoff
                      /\ \A j \in 1 .. (i - 1) : history[j] # history[i]}
    IN  [k \in 1 .. Cardinality(keep) |->
            history[CHOOSE i \in keep :
                        Cardinality({j \in keep : j < i}) = k - 1]]
prune_historyInclusive(history, now, window_s) ==
    LET cutoff == now - window_s
        to_remove == SelectSeq(history, LAMBDA entry : entry[1] <= cutoff)
    IN  RemoveEach(history, to_remove)
prune_history(history, now, window_s) ==
    LET cutoff == now - window_s
        to_remove == SelectSeq(history, LAMBDA entry : entry[1] < cutoff)
    IN  RemoveEach(history, to_remove)

\* max(d for _, d in history), for a non-empty history
MinDesired(history) ==
    CHOOSE m \in {history[i][2] : i \in DOMAIN history} :
        \A i \in DOMAIN history : m <= history[i][2]
MaxDesired(history) ==
    CHOOSE m \in {history[i][2] : i \in DOMAIN history} :
        \A i \in DOMAIN history : history[i][2] <= m

\* usage / target is evaluated only when target > 0; with a non-finite usage
\* the product is non-finite and math.ceil raises OverflowError
MetricRaises(usage, request, pct) == request * pct > 0 /\ usage = Inf

\* math.ceil(current_replicas * ratio), ratio = usage / target if target > 0
\* else 1.0
MetricDesiredUsageGuard(current, usage, request, pct) ==
    IF usage > 0 /\ request * pct > 0
    THEN Ceil(current * usage * 100, request * pct)
    ELSE current
MetricDesiredNoTarget(current, usage, request, pct) ==
    IF request > 0
    THEN Ceil(current * usage, request)
    ELSE current
MetricDesired(current, usage, request, pct) ==
    IF request * pct > 0
    THEN Ceil(current * usage * 100, request * pct)
    ELSE current

ActionOf(stabilised, current) ==
    IF stabilised > current THEN "scale_up"
    ELSE IF stabilised < current THEN "scale_down"
    ELSE "no_change"

\* the direction of a call (hpa_simulator.py 95, 102); neither is the hold
\* path
IsScaleUpPathOrDown(raw_desired, current) == raw_desired # current
IsScaleUpPath(raw_desired, current) == raw_desired > current

IsScaleDownPathOrHold(raw_desired, current) == raw_desired <= current
IsScaleDownPath(raw_desired, current) == raw_desired < current

\* HPASimulator.compute: the histories after the call and what it returns
compute(current_replicas_in, cpu, mem, cpu_req, mem_req, timestamp_s) ==
    LET current == Max2(1, current_replicas_in)
    IN
    IF \/ MetricRaises(cpu, cpu_req, cpu_target_pct)
       \/ MetricRaises(mem, mem_req, mem_target_pct)
    THEN [up |-> scale_up_history, down |-> scale_down_history,
          out |-> [status |-> "raised"]]
    ELSE
    LET cpu_desired == MetricDesired(current, cpu, cpu_req, cpu_target_pct)
        mem_desired == MetricDesired(current, mem, mem_req, mem_target_pct)
        raw_desired == Clamp(Max2(cpu_desired, mem_desired))
        up == IF IsScaleUpPath(raw_desired, current)
              THEN prune_history(
                       Append(scale_up_history, <<timestamp_s, raw_desired>>),
                       timestamp_s, SCALE_UP_STABILIZATION_WINDOW_S)
              ELSE scale_up_history
        down == IF IsScaleDownPath(raw_desired, current)
                THEN prune_history(
                       Append(scale_down_history, <<timestamp_s, raw_desired>>),
                       timestamp_s, SCALE_DOWN_STABILIZATION_WINDOW_S)
                ELSE scale_down_history
        hold == /\ ~IsScaleUpPath(raw_desired, current)
                /\ ~IsScaleDownPath(raw_desired, current)
        used == IF IsScaleUpPath(raw_desired, current) THEN up
                ELSE IF IsScaleDownPath(raw_desired, current) THEN down
                ELSE <<>>
    IN
    IF ~hold /\ used = <<>>
    THEN \* max() of an empty sequence raises ValueError
         [up |-> up, down |-> down, out |-> [status |-> "raised"]]
    ELSE
    LET stabilised == Clamp(IF hold THEN current ELSE MaxDesired(used))
    IN  [up |-> up, down |-> down,
         out |-> [status |-> "ok",
                  hpa_sim_desired |-> stabilised,
                  hpa_sim_raw_desired |-> raw_desired,
                  hpa_sim_cpu_desired |-> cpu_desired,
                  hpa_sim_mem_desired |-> mem_desired,
                  hpa_sim_action |-> ActionOf(stabilised, current)]]

NoArgs == [current_replicas |-> None]
NoResult == [status |-> "none"]
\* locals of run_loop that hold nothing yet
NoSample == [empty |-> TRUE]
NoStatus == [unset |-> TRUE]
NoPrediction == [none |-> TRUE]
NoApplied == [unset |-> TRUE]

MkArgs(c, cpu, mem, cpu_req, mem_req, ts) ==
    [current_replicas |-> c, cpu_millicores |-> cpu, memory_mebibytes |-> mem,
     cpu_request_millicores |-> cpu_req, memory_request_mebibytes |-> mem_req,
     timestamp_s |-> ts]

\* one call of compute on the simulator's state
Call(a) ==
    LET r == compute(a.current_replicas, a.cpu_millicores, a.memory_mebibytes,
                     a.cpu_request_millicores, a.memory_request_mebibytes,
                     a.timestamp_s)
    IN  /\ scale_up_history' = r.up
        /\ scale_down_history' = r.down
        /\ hpa_result' = r.out
        /\ sim_args' = a
        /\ now_ordered' = /\ now_ordered
                          /\ \/ sim_args = NoArgs
                             \/ sim_args.timestamp_s <= a.timestamp_s
        /\ down_calls' =
              IF ~now_ordered' THEN <<>>
              ELSE IF /\ hpa_result'.status = "ok"
                      /\ hpa_result'.hpa_sim_raw_desired
                             < Max2(1, a.current_replicas)
              THEN Append(down_calls,
                          <<a.timestamp_s, hpa_result'.hpa_sim_raw_desired>>)
              ELSE down_calls
        /\ raw_up_held' =
              \/ raw_up_held
              \/ /\ hpa_result'.status = "ok"
                 /\ hpa_result'.hpa_sim_raw_desired
                        > Max2(1, a.current_replicas)
                 /\ hpa_result'.hpa_sim_action = "no_change"

-----------------------------------------------------------------------------
(* Configuration drawn at construction *)

InitKube ==
    /\ \E k \in KubeConfigs : min_replicas = k[1] /\ max_replicas = k[2]
    /\ \E t \in TargetConfigs : cpu_target_pct = t[1] /\ mem_target_pct = t[2]

InitSim ==
    /\ scale_up_history = <<>>
    /\ scale_down_history = <<>>
    /\ hpa_result = NoResult
    /\ n_calls = 0
    /\ now_ordered = TRUE
    /\ down_calls = <<>>
    /\ raw_up_held = FALSE

\* the predictor's variables before predict is called
PredictIdle ==
    /\ attempt = 0
    /\ messages = <<>>
    /\ n_requests = 0
    /\ responses = <<>>
    /\ predict_out = NoResult

\* cpu_stressor's variables while it is not run
StressIdle ==
    /\ args_max_pods = 0
    /\ args_workers = 0
    /\ active = <<>>
    /\ worker_id = 0
    /\ cycles = 0
    /\ stress_pc = "idle"

\* load_generator's variables while it is not run
NoCounters == [total |-> 0, ok |-> 0, err |-> 0]
LoadIdle ==
    /\ url_is_default = FALSE
    /\ pf_proc = "none"
    /\ pf_elapsed = 0
    /\ requests_sent = 0
    /\ counters = NoCounters
    /\ pending = {}
    /\ stop = FALSE
    /\ exit_status = "none"
    /\ load_pc = "idle"

\* the variables of the components a specification does not exercise
ToolsIdle ==
    /\ formula_baseline = NoResult
    /\ PredictIdle
    /\ StressIdle
    /\ LoadIdle

\* the control loop's variables when only the simulator is exercised
LoopIdle ==
    /\ dep_replicas = 1
    /\ hpa_exists = FALSE
    /\ patches = <<>>
    /\ pc = "idle"
    /\ clock = 0
    /\ iter_start = 0
    /\ iteration = 0
    /\ current_replicas = 0
    /\ latest = NoSample
    /\ hpa_status = NoStatus
    /\ prediction = NoPrediction
    /\ applied = NoApplied
    /\ rows = <<>>

-----------------------------------------------------------------------------
(* SimSpec: a fresh HPASimulator driven by a sequence of compute calls *)

SimCur == {0, 2, 4, 11}
SimTs == {0, 10, 70}
\* <<cpu, cpu_request, mem, mem_request>>
SimSamples == {
    <<30, 100, 40, 100>>,     \* both at half the target
    <<60, 100, 80, 100>>,     \* both at the target
    <<120, 100, 80, 100>>,    \* cpu at twice the target
    <<70, 100, 40, 100>>,     \* cpu ratio 7/6
    <<120, 0, 40, 100>>,      \* no cpu request: ratio 1.0
    <<0, 100, 0, -100>>,      \* idle, negative memory request
    <<Inf, 100, 80, 100>> }   \* non-finite cpu sample

SimInit ==
    /\ InitKube
    /\ InitSim
    /\ mode = "comparison"
    /\ duration_s = 0
    /\ sim_args = NoArgs
    /\ phase = "sim"
    /\ LoopIdle
    /\ ToolsIdle

SimCompute ==
    /\ phase = "sim"
    /\ n_calls < MaxCalls
    /\ \E c \in SimCur, s \in SimSamples, ts \in SimTs :
           Call(MkArgs(c, s[1], s[3], s[2], s[4], ts))
    /\ n_calls' = n_calls + 1
    /\ UNCHANGED <<cfg_vars, formula_baseline, tool_vars, phase, cluster_vars, loop_vars>>

SimNext == SimCompute
SimSpec == SimInit /\ [][SimNext]_vars

-----------------------------------------------------------------------------
(* OllamaPredictor.predict_from_df: the formula baseline *)

\* cpu_ratio = avg_cpu / (cpu_req * utilisation) if cpu_req > 0 else 1.0, as
\* a fraction; float division by 0.0 raises ZeroDivisionError
RatioDivides(request) == request > 0
RatioNum(usage, request) == IF RatioDivides(request) THEN usage * 100 ELSE 1
RatioDen(request, pct) == IF RatioDivides(request) THEN request * pct ELSE 1

\* raw = math.ceil(current_replicas * max(cpu_ratio, mem_ratio));
\* baseline = max(min_replicas, min(max_replicas, raw))
baseline(current, avg_cpu, avg_mem, cpu_req, mem_req) ==
    IF \/ RatioDivides(cpu_req) /\ cpu_target_pct = 0
       \/ RatioDivides(mem_req) /\ mem_target_pct = 0
    THEN [status |-> "raised", error |-> "ZeroDivisionError"]
    ELSE IF \/ RatioDivides(cpu_req) /\ avg_cpu = Inf
            \/ RatioDivides(mem_req) /\ avg_mem = Inf
    THEN [status |-> "raised", error |-> "OverflowError"]
    ELSE
    LET cn == RatioNum(avg_cpu, cpu_req)
        cd == RatioDen(cpu_req, cpu_target_pct)
        mn == RatioNum(avg_mem, mem_req)
        md == RatioDen(mem_req, mem_target_pct)
        raw == IF cn * md >= mn * cd
               THEN Ceil(current * cn, cd)
               ELSE Ceil(current * mn, md)
    IN  [status |-> "ok", raw |-> raw, baseline |-> Clamp(raw)]

\* the baseline for the arguments of a compute call
BaselineOf(a) ==
    baseline(a.current_replicas, a.cpu_millicores, a.memory_mebibytes,
             a.cpu_request_millicores, a.memory_request_mebibytes)

-----------------------------------------------------------------------------
(* FnSpec: one compute call on a fresh simulator, arguments drawn in Init *)

FnCur == -1 .. MaxCur
\* timestamp_s of a second call: before and after the first call's 0
FnTs == {-10, 10}
FnCpu == {-60, 0, 30, 60, 70, 120, 600, Inf}
FnCpuReq == {-100, 0, 100}
FnMem == {0, 40, 80, 100, Inf}
FnMemReq == {0, 100}
\* <<--cpu-target, --memory-target>>: the defaults, and a zero cpu target
FnTargetConfigs == {<<60, 80>>, <<0, 80>>}

FnInit ==
    /\ \E k \in KubeConfigs : min_replicas = k[1] /\ max_replicas = k[2]
    /\ \E t \in FnTargetConfigs :
           cpu_target_pct = t[1] /\ mem_target_pct = t[2]
    /\ InitSim
    /\ mode = "comparison"
    /\ duration_s = 0
    /\ \E c \in FnCur, cpu \in FnCpu, cr \in FnCpuReq,
          mem \in FnMem, mr \in FnMemReq :
           sim_args = MkArgs(c, cpu, mem, cr, mr, 0)
    /\ phase = "fn"
    /\ LoopIdle
    /\ ToolsIdle

FnApply ==
    /\ phase = "fn"
    /\ n_calls = 0
    /\ Call(sim_args)
    /\ formula_baseline' = BaselineOf(sim_args)
    /\ n_calls' = 1
    /\ UNCHANGED <<cfg_vars, tool_vars, phase, cluster_vars, loop_vars>>

\* a second call on the same simulator, one metric's usage or the timestamp
\* changed and every other argument as before; the formula baseline is
\* computed for the same arguments
FnVary ==
    /\ phase = "fn"
    /\ n_calls = 1
    /\ \/ \E cpu \in FnCpu : Call([sim_args EXCEPT !.cpu_millicores = cpu])
       \/ \E mem \in FnMem : Call([sim_args EXCEPT !.memory_mebibytes = mem])
       \/ \E ts \in FnTs : Call([sim_args EXCEPT !.timestamp_s = ts])
    /\ formula_baseline' = BaselineOf(sim_args')
    /\ n_calls' = 2
    /\ UNCHANGED <<cfg_vars, tool_vars, phase, cluster_vars, loop_vars>>

FnNext == FnApply \/ FnVary
FnSpec == FnInit /\ [][FnNext]_vars

-----------------------------------------------------------------------------
(* PredictSpec: one call of OllamaPredictor.predict *)

\* response.choices[0].message.content: text without a {...} block, a {...}
\* block that json.loads rejects, or a JSON object whose other fields are
\* valid and whose recommended_replicas is r
NoJson == [kind |-> "no_json"]
BadJson == [kind |-> "bad_json"]
JsonReply(r) == [kind |-> "json", recommended_replicas |-> r]
ReplyVals == {0, 3, 12, 21}
Replies == {NoJson, BadJson} \cup {JsonReply(r) : r \in ReplyVals}

\* _parse raises ValueError, JSONDecodeError or ValidationError
\* (recommended_replicas: ge=1, le=20)
parseFails(raw) ==
    \/ raw.kind # "json"
    \/ raw.recommended_replicas < 1
    \/ raw.recommended_replicas > 20

\* for attempt in range(1, 4)
AttemptRangeFour == 1 .. 4
AttemptRange == 1 .. 3

\* what predict leaves alone
predict_frame == <<cfg_vars, sim_vars, call_vars, cluster_vars, loop_vars,
                   formula_baseline, stress_vars, load_vars>>

PredictInit ==
    /\ InitKube
    /\ InitSim
    /\ mode = "ai_scaler"
    /\ duration_s = 0
    /\ sim_args = NoArgs
    /\ phase = "predict"
    /\ LoopIdle
    /\ formula_baseline = NoResult
    /\ PredictIdle
    /\ StressIdle
    /\ LoadIdle

\* the system and user messages are built, the loop is entered
PredictStart ==
    /\ phase = "predict"
    /\ attempt = 0
    /\ messages' = <<"system", "user">>
    /\ attempt' = 1
    /\ UNCHANGED <<n_requests, responses, predict_out>>
    /\ UNCHANGED predict_frame

\* one pass of the loop body: a request, then return, retry or propagate
PredictAttempt ==
    /\ phase = "predict"
    /\ attempt \in AttemptRange
    /\ predict_out = NoResult
    /\ n_requests' = n_requests + 1
    /\ \/ \* create raises (APIError, timeout): not caught by predict
          /\ predict_out' = [status |-> "raised", error |-> "APIError"]
          /\ UNCHANGED <<attempt, messages, responses>>
       \/ \E raw \in Replies :
            /\ responses' = Append(responses, raw)
            /\ IF parseFails(raw)
               THEN /\ messages' = messages \o <<"assistant", "user">>
                    /\ attempt' = attempt + 1
                    /\ UNCHANGED predict_out
               ELSE /\ predict_out' =
                          [status |-> "ok",
                           recommended_replicas |->
                               Clamp(raw.recommended_replicas)]
                    /\ UNCHANGED <<attempt, messages>>
    /\ UNCHANGED predict_frame

\* the loop ran out of attempts: RuntimeError
PredictGiveUp ==
    /\ phase = "predict"
    /\ attempt \notin AttemptRange
    /\ attempt # 0
    /\ predict_out = NoResult
    /\ predict_out' = [status |-> "raised", error |-> "RuntimeError"]
    /\ UNCHANGED <<attempt, messages, n_requests, responses>>
    /\ UNCHANGED predict_frame

PredictNext ==
    \/ PredictStart
    \/ PredictAttempt
    \/ PredictGiveUp

PredictSpec == PredictInit /\ [][PredictNext]_vars

-----------------------------------------------------------------------------
(* StressSpec: cpu_stressor.main *)

MaxCycles == 3         \* passes of the stressor's while loop that are explored

\* names kubectl may list for the label selector
Pods == {"webapp-a", "webapp-b", "webapp-c"}
\* get_pods(): a non-empty list of distinct names, in the order kubectl
\* printed them
PodLists ==
    {l \in UNION {[1 .. n -> Pods] : n \in 1 .. Cardinality(Pods)} :
        \A i, j \in DOMAIN l : i # j => l[i] # l[j]}
\* --max-pods: absent, 1 or 2
MaxPodsVals == {0, 1, 2}
\* --workers
WorkersVals == {1, 2}

\* if args.max_pods: current_pods = current_pods[: args.max_pods]
LimitPods(current_pods) ==
    IF args_max_pods # 0
    THEN SubSeq(current_pods, 1, Min2(args_max_pods, Len(current_pods)))
    ELSE current_pods

\* the for loop over new_pods: args.workers start_worker calls for each pod,
\* then active[pod] = workers
RECURSIVE StartWorkers(_, _, _)
StartWorkers(new_pods, act, wid) ==
    IF new_pods = <<>> THEN [active |-> act, worker_id |-> wid]
    ELSE LET pod == Head(new_pods)
             workers == [i \in 1 .. args_workers |-> wid + i]
         IN  StartWorkers(Tail(new_pods), (pod :> workers) @@ act,
                          wid + args_workers)

\* what main leaves alone
stress_frame == <<cfg_vars, sim_vars, call_vars, cluster_vars, loop_vars,
                  formula_baseline, predict_vars, load_vars>>

StressInit ==
    /\ InitKube
    /\ InitSim
    /\ mode = "comparison"
    /\ duration_s = 0
    /\ sim_args = NoArgs
    /\ phase = "stress"
    /\ LoopIdle
    /\ formula_baseline = NoResult
    /\ PredictIdle
    /\ LoadIdle
    /\ args_max_pods \in MaxPodsVals
    /\ args_workers \in WorkersVals
    /\ active = <<>>
    /\ worker_id = 0
    /\ cycles = 0
    /\ stress_pc = "loop"

\* a pass of the while loop in which get_pods returns a list
StressRefresh ==
    /\ phase = "stress"
    /\ stress_pc = "loop"
    /\ cycles < MaxCycles
    /\ \E listed \in PodLists :
         LET current_pods == LimitPods(listed)
             new_pods == SelectSeq(current_pods,
                                   LAMBDA p : p \notin DOMAIN active)
             r == StartWorkers(new_pods, active, worker_id)
         IN  /\ active' = r.active
             /\ worker_id' = r.worker_id
    /\ cycles' = cycles + 1
    /\ UNCHANGED <<args_max_pods, args_workers, stress_pc>>
    /\ UNCHANGED stress_frame

\* a pass in which get_pods raises RuntimeError (no pod listed): retried
\* after the refresh sleep
StressQueryFails ==
    /\ phase = "stress"
    /\ stress_pc = "loop"
    /\ cycles < MaxCycles
    /\ cycles' = cycles + 1
    /\ UNCHANGED <<args_max_pods, args_workers, active, worker_id, stress_pc>>
    /\ UNCHANGED stress_frame

\* the duration is reached or the run is interrupted: the finally block
\* terminates every worker
StressStop ==
    /\ phase = "stress"
    /\ stress_pc = "loop"
    /\ stress_pc' = "stopped"
    /\ UNCHANGED <<args_max_pods, args_workers, active, worker_id, cycles>>
    /\ UNCHANGED stress_frame

StressNext ==
    \/ StressRefresh
    \/ StressQueryFails
    \/ StressStop

StressSpec == StressInit /\ [][StressNext]_vars

-----------------------------------------------------------------------------
(* LoadSpec: load_generator.main, start_port_forward, run and _worker *)

MaxRequests == 3       \* request tasks created in one run that are explored

\* deadline = time.monotonic() + 5.0, in tenths of a second
PortForwardDeadline == 50
\* time.sleep(0.2) after a failed connection attempt
PortForwardPollSleep == 2
\* how long socket.create_connection takes to fail: refused at once, or the
\* 0.3 s timeout
ConnectFailDelays == {0, 3}
\* requests the pacing loop finds missing in one pass
Deficits == 0 .. 2
\* how a request ends: status < 400, status >= 400, or an exception
\* (connection error, timeout)
WorkerOutcomes == {"ok", "http_error", "exception"}

\* _worker: the counters after a request that ended with outcome
workerDropsFailures(c, outcome) ==
    IF outcome = "ok"
    THEN [c EXCEPT !.total = @ + 1, !.ok = @ + 1]
    ELSE IF outcome = "http_error"
    THEN [c EXCEPT !.total = @ + 1, !.err = @ + 1]
    ELSE c
worker(c, outcome) ==
    IF outcome = "ok"
    THEN [c EXCEPT !.total = @ + 1, !.ok = @ + 1]
    ELSE [c EXCEPT !.total = @ + 1, !.err = @ + 1]

\* what the else branch of start_port_forward's polling loop raises after
\* proc.terminate(): the message of its RuntimeError is an f-string over
\* DEPLOYMENT and POD_PORT, names the module never defines, so evaluating
\* it raises NameError
PortForwardTimeoutRaises == "NameError"

\* main: RuntimeError becomes SystemExit("Port-forward failed: ..."), any
\* other exception leaves main as it is
MainExitOn(exc) ==
    IF exc = "RuntimeError" THEN "SystemExit: Port-forward failed" ELSE exc

\* what load_generator leaves alone
load_frame == <<cfg_vars, sim_vars, call_vars, cluster_vars, loop_vars,
                formula_baseline, predict_vars, stress_vars>>

LoadInit ==
    /\ InitKube
    /\ InitSim
    /\ mode = "comparison"
    /\ duration_s = 0
    /\ sim_args = NoArgs
    /\ phase = "load"
    /\ LoopIdle
    /\ formula_baseline = NoResult
    /\ PredictIdle
    /\ StressIdle
    /\ url_is_default \in BOOLEAN
    /\ pf_proc = "none"
    /\ pf_elapsed = 0
    /\ requests_sent = 0
    /\ counters = NoCounters
    /\ pending = {}
    /\ stop = FALSE
    /\ exit_status = "none"
    /\ load_pc = "main"

\* main up to the Popen of start_port_forward
LoadMain ==
    /\ phase = "load"
    /\ load_pc = "main"
    /\ IF url_is_default
       THEN pf_proc' = "running" /\ load_pc' = "port_forward"
       ELSE pf_proc' = pf_proc /\ load_pc' = "run"
    /\ UNCHANGED <<url_is_default, pf_elapsed, requests_sent, counters,
                   pending, stop, exit_status>>
    /\ UNCHANGED load_frame

\* one pass of the polling loop of start_port_forward, entered before the
\* deadline: the port is open, or the attempt fails and the loop sleeps
PortForwardPoll ==
    /\ phase = "load"
    /\ load_pc = "port_forward"
    /\ pf_elapsed < PortForwardDeadline
    /\ \/ /\ load_pc' = "run"
          /\ pf_elapsed' = 0
       \/ /\ \E d \in ConnectFailDelays :
                 pf_elapsed' = pf_elapsed + d + PortForwardPollSleep
          /\ load_pc' = load_pc
    /\ UNCHANGED <<url_is_default, pf_proc, requests_sent, counters, pending,
                   stop, exit_status>>
    /\ UNCHANGED load_frame

\* the else branch of the polling loop, and what main does with the
\* exception
PortForwardTimeout ==
    /\ phase = "load"
    /\ load_pc = "port_forward"
    /\ pf_elapsed >= PortForwardDeadline
    /\ pf_proc' = "terminated"
    /\ exit_status' = MainExitOn(PortForwardTimeoutRaises)
    /\ load_pc' = "exited"
    /\ UNCHANGED <<url_is_default, pf_elapsed, requests_sent, counters,
                   pending, stop>>
    /\ UNCHANGED load_frame

\* one pass of run's while loop that is neither stopped nor past the
\* duration: the missing requests are created as tasks
LoadTick ==
    /\ phase = "load"
    /\ load_pc = "run"
    /\ ~stop
    /\ \E deficit \in Deficits :
         /\ requests_sent + deficit <= MaxRequests
         /\ requests_sent' = requests_sent + deficit
         /\ pending' = pending \cup
                          (requests_sent + 1 .. requests_sent + deficit)
    /\ UNCHANGED <<url_is_default, pf_proc, pf_elapsed, counters, stop,
                   exit_status, load_pc>>
    /\ UNCHANGED load_frame

\* SIGINT or SIGTERM: _handle_stop
LoadSignal ==
    /\ phase = "load"
    /\ load_pc = "run"
    /\ ~stop
    /\ stop' = TRUE
    /\ UNCHANGED <<url_is_default, pf_proc, pf_elapsed, requests_sent,
                   counters, pending, exit_status, load_pc>>
    /\ UNCHANGED load_frame

\* a request task runs to its end while run is suspended in sleep or gather
WorkerDone ==
    /\ phase = "load"
    /\ load_pc \in {"run", "gather"}
    /\ \E task \in pending, outcome \in WorkerOutcomes :
         /\ counters' = worker(counters, outcome)
         /\ pending' = pending \ {task}
    /\ UNCHANGED <<url_is_default, pf_proc, pf_elapsed, requests_sent, stop,
                   exit_status, load_pc>>
    /\ UNCHANGED load_frame

\* the while loop ends: stop is set or the duration has passed
LoadLoopExit ==
    /\ phase = "load"
    /\ load_pc = "run"
    /\ load_pc' = "gather"
    /\ UNCHANGED <<url_is_default, pf_proc, pf_elapsed, requests_sent,
                   counters, pending, stop, exit_status>>
    /\ UNCHANGED load_frame

\* asyncio.gather(*pending) has returned, or pending was empty: run returns
gatherDone == pending = {}
LoadGather ==
    /\ phase = "load"
    /\ load_pc = "gather"
    /\ gatherDone
    /\ load_pc' = "returned"
    /\ UNCHANGED <<url_is_default, pf_proc, pf_elapsed, requests_sent,
                   counters, pending, stop, exit_status>>
    /\ UNCHANGED load_frame

\* main's finally block
LoadFinally ==
    /\ phase = "load"
    /\ load_pc = "returned"
    /\ pf_proc' = IF pf_proc = "running" THEN "terminated" ELSE pf_proc
    /\ exit_status' = "ok"
    /\ load_pc' = "exited"
    /\ UNCHANGED <<url_is_default, pf_elapsed, requests_sent, counters,
                   pending, stop>>
    /\ UNCHANGED load_frame

LoadNext ==
    \/ LoadMain
    \/ PortForwardPoll
    \/ PortForwardTimeout
    \/ LoadTick
    \/ LoadSignal
    \/ WorkerDone
    \/ LoadLoopExit
    \/ LoadGather
    \/ LoadFinally

LoadSpec == LoadInit /\ [][LoadNext]_vars

-----------------------------------------------------------------------------
(* KubernetesScaler *)

\* get_current_replicas: dep.spec.replicas or 1; 1 on ApiException
get_current_replicas(outcome) ==
    IF outcome = "ok"
    THEN (IF dep_replicas = 0 THEN 1 ELSE dep_replicas)
    ELSE 1

\* get_hpa_status: the live HPA's status, {} when it is absent or unreadable
EmptyDict == [empty |-> TRUE]
HpaStatusOutcomes ==
    {EmptyDict} \cup
    (IF hpa_exists
     THEN {[empty |-> FALSE, hpa_current_replicas |-> dep_replicas,
            hpa_desired_replicas |-> d] : d \in HpaDesiredVals}
     ELSE {})

\* scale_deployment(replicas): patches the clamped count, True on success
scale_deploymentRetried(replicas, ok) ==
    LET clamped == Clamp(replicas)
        call == [iteration |-> iteration, requested |-> replicas,
                 replicas |-> clamped, ok |-> ok]
    IN  /\ dep_replicas' = IF ok THEN clamped ELSE dep_replicas
        /\ patches' = IF ok THEN Append(patches, call)
                      ELSE Append(Append(patches, call), call)
scale_deployment(replicas, ok) ==
    LET clamped == Clamp(replicas)
    IN  /\ dep_replicas' = IF ok THEN clamped ELSE dep_replicas
        /\ patches' = Append(patches, [iteration |-> iteration,
                                       requested |-> replicas,
                                       replicas |-> clamped,
                                       ok |-> ok])

\* ensure_hpa_disabled: deletes the HPA; 404 ignored, other errors logged
ensure_hpa_disabled ==
    \E outcome \in {"ok", "ApiException"} :
        hpa_exists' = IF outcome = "ok" THEN FALSE ELSE hpa_exists

\* ensure_hpa_exists: keeps a healthy HPA, recreates an unhealthy one,
\* creates a missing one; gives up on an unexpected read or delete error
ensure_hpa_exists ==
    \E read \in {"healthy", "unhealthy", "404", "ApiException"},
       delete_ok \in BOOLEAN, create_ok \in BOOLEAN :
        /\ read \in {"healthy", "unhealthy"} => hpa_exists
        /\ read = "404" => ~hpa_exists
        /\ hpa_exists' =
             CASE read = "healthy" -> TRUE
               [] read = "ApiException" -> hpa_exists
               [] read = "unhealthy" -> IF delete_ok THEN create_ok ELSE TRUE
               [] read = "404" -> create_ok

-----------------------------------------------------------------------------
(* run_loop *)

Init ==
    /\ mode \in CliModes
    /\ duration_s \in DurationVals
    /\ \E k \in CliKubeConfigs : min_replicas = k[1] /\ max_replicas = k[2]
    /\ \E t \in TargetConfigs : cpu_target_pct = t[1] /\ mem_target_pct = t[2]
    /\ InitSim
    /\ sim_args = NoArgs
    /\ phase = "loop"
    /\ dep_replicas \in DepVals
    /\ hpa_exists \in BOOLEAN
    /\ patches = <<>>
    /\ pc = "parse_args"
    /\ clock = 0
    /\ iter_start = 0
    /\ iteration = 0
    /\ current_replicas = 0
    /\ latest = NoSample
    /\ hpa_status = NoStatus
    /\ prediction = NoPrediction
    /\ applied = NoApplied
    /\ rows = <<>>
    /\ ToolsIdle

\* parser.parse_args() (main.py 276-281, 356): a --mode outside choices ends
\* the process with a usage error; every other value is taken as given
parse_args ==
    /\ pc = "parse_args"
    /\ pc' = IF mode \in Modes THEN "setup" ELSE "usage_error"
    /\ UNCHANGED <<cfg_vars, formula_baseline, tool_vars, sim_vars, call_vars, cluster_vars, clock,
                   iter_start, iteration, current_replicas, latest,
                   hpa_status, prediction, applied, rows>>

\* mode setup, start_time, CSV header (main.py 110-130)
Setup ==
    /\ pc = "setup"
    /\ IF mode = "ai_scaler" THEN ensure_hpa_disabled ELSE ensure_hpa_exists
    /\ pc' = "read"
    /\ UNCHANGED <<cfg_vars, formula_baseline, tool_vars, sim_vars, call_vars, dep_replicas, patches,
                   clock, iter_start, iteration, current_replicas, latest,
                   hpa_status, prediction, applied, rows>>

\* top of the while loop and step 1 (main.py 132-150)
IterReadOverlapping ==
    /\ pc \in {"read", "predict"}
    /\ iteration < MaxIter
    /\ iteration' = iteration + 1
    /\ iter_start' = clock
    /\ \E outcome \in {"ok", "ApiException"} :
           current_replicas' = get_current_replicas(outcome)
    /\ latest' = NoSample
    /\ hpa_status' = NoStatus
    /\ prediction' = NoPrediction
    /\ applied' = NoApplied
    /\ pc' = "fetch"
    /\ UNCHANGED <<cfg_vars, formula_baseline, tool_vars, sim_vars, call_vars, cluster_vars, clock, rows>>
IterRead ==
    /\ pc = "read"
    /\ iteration < MaxIter
    /\ iteration' = iteration + 1
    /\ iter_start' = clock
    /\ \E outcome \in {"ok", "ApiException"} :
           current_replicas' = get_current_replicas(outcome)
    /\ latest' = NoSample
    /\ hpa_status' = NoStatus
    /\ prediction' = NoPrediction
    /\ applied' = NoApplied
    /\ pc' = "fetch"
    /\ UNCHANGED <<cfg_vars, formula_baseline, tool_vars, sim_vars, call_vars, cluster_vars, clock, rows>>

\* the two skip branches of step 2 (main.py 155-158 and 175-178): the row
\* under construction is dropped and the loop sleeps until the next tick
SkipIterationWritesRow ==
    /\ latest' = NoSample
    /\ pc' = "skip_sleep"
    /\ rows' = Append(rows, [iteration |-> iteration,
                             mode |-> mode,
                             current_replicas |-> current_replicas,
                             hpa_sim |-> NoResult,
                             hpa_status |-> NoStatus,
                             ai |-> NoPrediction,
                             applied_replicas |-> current_replicas,
                             applied_by |-> ""])
SkipIteration ==
    /\ latest' = NoSample
    /\ pc' = "skip_sleep"
    /\ rows' = rows

\* step 2 (main.py 152-178): an empty frame or an exception skips the
\* iteration
IterFetch ==
    /\ pc = "fetch"
    /\ \E d \in FetchDelays : clock' = clock + d
    /\ \E outcome \in {"empty", "raise", "ok"} :
           IF outcome = "ok"
           THEN /\ \E s \in LoopSamples :
                       latest' = [empty |-> FALSE,
                                  cpu_millicores |-> s[1],
                                  cpu_request_millicores |-> s[2],
                                  memory_mebibytes |-> s[3],
                                  memory_request_mebibytes |-> s[4]]
                /\ pc' = "compute"
                /\ rows' = rows
           ELSE SkipIteration
    /\ UNCHANGED <<cfg_vars, formula_baseline, tool_vars, sim_vars, call_vars, cluster_vars, iter_start,
                   iteration, current_replicas, hpa_status, prediction,
                   applied>>

\* step 3 (main.py 180-195): not inside any try block
IterCompute ==
    /\ pc = "compute"
    /\ Call(MkArgs(current_replicas, latest.cpu_millicores,
                   latest.memory_mebibytes, latest.cpu_request_millicores,
                   latest.memory_request_mebibytes, clock))
    /\ pc' = IF hpa_result'.status = "raised" THEN "crashed" ELSE "hpa_status"
    /\ UNCHANGED <<cfg_vars, formula_baseline, tool_vars, n_calls, phase, cluster_vars, clock, iter_start,
                   iteration, current_replicas, latest, hpa_status,
                   prediction, applied, rows>>

\* step 4 (main.py 197-201)
IterHpaStatus ==
    /\ pc = "hpa_status"
    /\ hpa_status' \in HpaStatusOutcomes
    /\ pc' = "predict"
    /\ UNCHANGED <<cfg_vars, formula_baseline, tool_vars, sim_vars, call_vars, cluster_vars, clock,
                   iter_start, iteration, current_replicas, latest,
                   prediction, applied, rows>>

\* the except branch of step 5 (main.py 216-218): the exception is logged,
\* prediction is None and the iteration goes on to step 6
PredictorFailsSkips ==
    /\ prediction' = NoPrediction
    /\ pc' = "skip_sleep"
PredictorFails ==
    /\ prediction' = NoPrediction
    /\ pc' = "apply"

\* step 5 (main.py 203-218): predict_from_df returns a prediction whose
\* recommended_replicas predict has clamped, or raises
IterPredict ==
    /\ pc = "predict"
    /\ \/ PredictorFails
       \/ /\ \E r \in PredVals :
                 prediction' = [none |-> FALSE,
                                recommended_replicas |-> Clamp(r)]
          /\ pc' = "apply"
    /\ UNCHANGED <<cfg_vars, formula_baseline, tool_vars, sim_vars, call_vars, cluster_vars, clock,
                   iter_start, iteration, current_replicas, latest,
                   hpa_status, applied, rows>>

\* main.py 224: the prediction drives the replica count
AiGovernsAnyMode == prediction # NoPrediction
AiGoverns == mode = "ai_scaler" /\ prediction # NoPrediction

\* main.py 225: the recommendation is applied only if it changes the count
ShouldScaleUpOnly(recommended, current) == recommended > current
ShouldScale(recommended, current) == recommended # current

\* main.py 221-222, 226-229: the recommendation counts as applied only when
\* scale_deployment returned True
AppliedAfterWriteIgnoresResult(ok) ==
    [applied_replicas |-> prediction.recommended_replicas,
     applied_by |-> "ai"]
AppliedAfterWrite(ok) ==
    IF ok
    THEN [applied_replicas |-> prediction.recommended_replicas,
          applied_by |-> "ai"]
    ELSE [applied_replicas |-> current_replicas, applied_by |-> "none"]

\* main.py 237: hpa_status.get("hpa_desired_replicas", current_replicas);
\* the key is absent only from the empty dict
HpaDesiredOrCurrentIgnoresStatus(status, current) == current
HpaDesiredOrCurrent(status, current) ==
    IF status = EmptyDict THEN current ELSE status.hpa_desired_replicas

\* step 6 (main.py 220-243)
IterApply ==
    /\ pc = "apply"
    /\ IF AiGoverns
       THEN IF ShouldScale(prediction.recommended_replicas, current_replicas)
            THEN \E ok \in BOOLEAN :
                   /\ scale_deployment(prediction.recommended_replicas, ok)
                   /\ applied' = AppliedAfterWrite(ok)
            ELSE /\ applied' = [applied_replicas |-> current_replicas,
                                applied_by |-> "ai_no_change"]
                 /\ UNCHANGED <<dep_replicas, patches>>
       ELSE IF mode = "hpa_only"
       THEN /\ applied' = [applied_replicas |->
                               HpaDesiredOrCurrent(hpa_status, current_replicas),
                           applied_by |-> "hpa"]
            /\ UNCHANGED <<dep_replicas, patches>>
       ELSE /\ applied' = [applied_replicas |-> current_replicas,
                           applied_by |-> "observation_only"]
            /\ UNCHANGED <<dep_replicas, patches>>
    /\ pc' = "write_row"
    /\ UNCHANGED <<cfg_vars, formula_baseline, tool_vars, sim_vars, call_vars, hpa_exists, clock,
                   iter_start, iteration, current_replicas, latest,
                   hpa_status, prediction, rows>>

\* writer.writerow(row); csv_file.flush() on the file opened once, before the
\* loop (main.py 127, 246-247): the row goes after the rows already written
writerow(row) == Append(rows, row)

\* step 7 (main.py 245-247): writerow and flush
IterWriteRow ==
    /\ pc = "write_row"
    /\ rows' = writerow([iteration |-> iteration,
                         mode |-> mode,
                         current_replicas |-> current_replicas,
                         hpa_sim |-> hpa_result,
                         hpa_status |-> hpa_status,
                         ai |-> prediction,
                         applied_replicas |-> applied.applied_replicas,
                         applied_by |-> applied.applied_by])
    /\ pc' = "check"
    /\ UNCHANGED <<cfg_vars, formula_baseline, tool_vars, sim_vars, call_vars, cluster_vars, clock,
                   iter_start, iteration, current_replicas, latest,
                   hpa_status, prediction, applied>>

\* step 8 (main.py 249-253)
IterCheck ==
    /\ pc = "check"
    /\ pc' = IF duration_s > 0 /\ clock >= duration_s THEN "done" ELSE "sleep"
    /\ UNCHANGED <<cfg_vars, formula_baseline, tool_vars, sim_vars, call_vars, cluster_vars, clock,
                   iter_start, iteration, current_replicas, latest,
                   hpa_status, prediction, applied, rows>>

\* _sleep_until_next (main.py 261-262): sleep_for = max(0.0, interval - elapsed)
sleep_forUnclamped(interval, elapsed) == interval - elapsed
sleep_for(interval, elapsed) == Max2(0, interval - elapsed)

\* _sleep_until_next (main.py 260-265), then back to the top of the loop
IterSleep ==
    /\ pc \in {"sleep", "skip_sleep"}
    /\ clock' = clock + sleep_for(Interval, clock - iter_start)
    /\ pc' = "read"
    /\ UNCHANGED <<cfg_vars, formula_baseline, tool_vars, sim_vars, call_vars, cluster_vars, iter_start,
                   iteration, current_replicas, latest, hpa_status,
                   prediction, applied, rows>>

Next ==
    \/ parse_args
    \/ Setup
    \/ IterRead
    \/ IterFetch
    \/ IterCompute
    \/ IterHpaStatus
    \/ IterPredict
    \/ IterApply
    \/ IterWriteRow
    \/ IterCheck
    \/ IterSleep

Spec == Init /\ [][Next]_vars

-----------------------------------------------------------------------------
(* Properties of HPASimulator.compute *)

Returned == hpa_result.status = "ok"
Current == Max2(1, sim_args.current_replicas)

\* C1: with min_replicas <= max_replicas, every compute call of every
\* sequence of calls returns a stabilised and a raw desired count that lie in
\* [min_replicas, max_replicas], whatever the usage, the requests and
\* current_replicas are.
C1_ClampInvariant ==
    (min_replicas <= max_replicas /\ Returned) =>
        /\ min_replicas <= hpa_result.hpa_sim_desired
        /\ hpa_result.hpa_sim_desired <= max_replicas
        /\ min_replicas <= hpa_result.hpa_sim_raw_desired
        /\ hpa_result.hpa_sim_raw_desired <= max_replicas

\* a later call of a sequence whose metrics ask for more than max_replicas
C1_Witness ==
    /\ phase = "sim" /\ n_calls >= 2 /\ Returned
    /\ hpa_result.hpa_sim_cpu_desired > max_replicas
    /\ hpa_result.hpa_sim_desired = max_replicas

\* C2: scale-down caution.  On a fresh simulator (60 s scale-down window) a
\* compute at 4 replicas whose metrics imply raw_desired = 2, and a compute
\* 10 s later at 4 replicas whose metrics imply raw_desired = 4, both return
\* hpa_sim_desired >= 4.
C2_ScaleDownCaution ==
    /\ ( /\ phase = "sim" /\ n_calls = 1 /\ Returned
         /\ sim_args.current_replicas = 4
         /\ hpa_result.hpa_sim_raw_desired = 2 )
       => hpa_result.hpa_sim_desired >= 4
    /\ ( /\ phase = "sim" /\ n_calls = 2 /\ Returned
         /\ sim_args.current_replicas = 4
         /\ hpa_result.hpa_sim_raw_desired = 4
         /\ scale_up_history = <<>>
         /\ scale_down_history = <<<<sim_args.timestamp_s - 10, 2>>>> )
       => hpa_result.hpa_sim_desired >= 4

\* usage == request x target utilisation, for both resources
AtTarget ==
    /\ sim_args.cpu_millicores * 100
         = sim_args.cpu_request_millicores * cpu_target_pct
    /\ sim_args.memory_mebibytes * 100
         = sim_args.memory_request_mebibytes * mem_target_pct

\* C3 as stated: for every current_replicas >= 1, when both usages equal
\* their targets compute returns raw_desired = current_replicas and the
\* action no_change.
C3_AtTargetAnyCurrent ==
    (phase = "fn" /\ Returned /\ sim_args.current_replicas >= 1 /\ AtTarget) =>
        /\ hpa_result.hpa_sim_raw_desired = sim_args.current_replicas
        /\ hpa_result.hpa_sim_action = "no_change"

\* C3 amended: the same for every current_replicas >= 1 that lies within
\* [min_replicas, max_replicas].
C3_AtTargetInRange ==
    ( /\ phase = "fn" /\ Returned /\ AtTarget
      /\ sim_args.current_replicas >= 1
      /\ min_replicas <= sim_args.current_replicas
      /\ sim_args.current_replicas <= max_replicas ) =>
        /\ hpa_result.hpa_sim_raw_desired = sim_args.current_replicas
        /\ hpa_result.hpa_sim_desired = sim_args.current_replicas
        /\ hpa_result.hpa_sim_action = "no_change"

C3_Witness ==
    /\ phase = "fn" /\ Returned /\ AtTarget
    /\ sim_args.cpu_request_millicores > 0
    /\ sim_args.memory_request_mebibytes > 0
    /\ sim_args.current_replicas = 3
    /\ hpa_result.hpa_sim_action = "no_change"

\* d = ceil(c x usage / (request x pct / 100)) when that target is > 0,
\* stated by the two inequalities that define the ceiling; d = c otherwise
IsDesiredFor(d, c, usage, request, pct) ==
    IF request * pct > 0
    THEN /\ d * (request * pct) >= c * usage * 100
         /\ (d - 1) * (request * pct) < c * usage * 100
    ELSE d = c

AllFinite ==
    sim_args.cpu_millicores # Inf /\ sim_args.memory_mebibytes # Inf

\* C4: the raw recommendation follows the reference formula: with
\* c = max(1, current_replicas), each metric's desired count is
\* ceil(c x usage / (request x target utilisation)) when that target is > 0
\* and c when it is <= 0 (no division by zero, so finite inputs never make
\* the call fail); raw_desired is the larger of the two, clamped to
\* [min_replicas, max_replicas].  Instance: current 2, cpu_request 100,
\* target 0.6, cpu_usage 120, memory giving 2 -> cpu_desired 4,
\* raw_desired 4, action scale_up.
C4_ReferenceFormula ==
    (phase = "fn" /\ n_calls = 1) =>
        /\ AllFinite => Returned
        /\ Returned =>
            /\ IsDesiredFor(hpa_result.hpa_sim_cpu_desired, Current,
                            sim_args.cpu_millicores,
                            sim_args.cpu_request_millicores, cpu_target_pct)
            /\ IsDesiredFor(hpa_result.hpa_sim_mem_desired, Current,
                            sim_args.memory_mebibytes,
                            sim_args.memory_request_mebibytes, mem_target_pct)
            /\ LET m == IF hpa_result.hpa_sim_cpu_desired
                             >= hpa_result.hpa_sim_mem_desired
                        THEN hpa_result.hpa_sim_cpu_desired
                        ELSE hpa_result.hpa_sim_mem_desired
               IN  hpa_result.hpa_sim_raw_desired =
                     IF m > max_replicas
                     THEN (IF max_replicas < min_replicas
                           THEN min_replicas ELSE max_replicas)
                     ELSE IF m < min_replicas THEN min_replicas ELSE m
            /\ ( /\ sim_args.current_replicas = 2
                 /\ sim_args.cpu_millicores = 120
                 /\ sim_args.cpu_request_millicores = 100
                 /\ cpu_target_pct = 60
                 /\ hpa_result.hpa_sim_mem_desired = 2 )
               => /\ hpa_result.hpa_sim_cpu_desired = 4
                  /\ hpa_result.hpa_sim_raw_desired = 4
                  /\ hpa_result.hpa_sim_action = "scale_up"

\* the instance of C4, on the default replica bounds
C4_Witness ==
    /\ phase = "fn" /\ n_calls = 1 /\ Returned
    /\ max_replicas = 10
    /\ sim_args.current_replicas = 2
    /\ sim_args.cpu_millicores = 120
    /\ sim_args.cpu_request_millicores = 100
    /\ hpa_result.hpa_sim_mem_desired = 2
    /\ hpa_result.hpa_sim_action = "scale_up"

-----------------------------------------------------------------------------
(* Properties of run_loop *)

Row(k) == rows[k]
PatchesOf(it) == {i \in DOMAIN patches : patches[i].iteration = it}

\* C5: in hpa_only and comparison mode no iteration calls scale_deployment;
\* it is called only in ai_scaler mode, in an iteration whose prediction
\* exists and differs from the current replica count.
C5_WritesOnlyWhenAiDiffers ==
    /\ mode \in {"hpa_only", "comparison"} => patches = <<>>
    /\ \A i \in DOMAIN patches :
        /\ mode = "ai_scaler"
        /\ patches[i].iteration = iteration =>
              /\ prediction # NoPrediction
              /\ prediction.recommended_replicas # current_replicas
              /\ prediction.recommended_replicas = patches[i].requested
        /\ \A k \in DOMAIN rows :
              Row(k).iteration = patches[i].iteration =>
                  /\ Row(k).ai # NoPrediction
                  /\ Row(k).ai.recommended_replicas # Row(k).current_replicas

\* an observing mode records a prediction that differs from the current count
C5_Witness ==
    /\ mode \in {"hpa_only", "comparison"}
    /\ patches = <<>>
    /\ \E k \in DOMAIN rows :
          /\ Row(k).ai # NoPrediction
          /\ Row(k).ai.recommended_replicas # Row(k).current_replicas

\* C6: in ai_scaler mode, with the predictor returning r and the current
\* count c: if r # c, scale_deployment is called exactly once, with r, and
\* when it succeeds the row has applied_replicas = r and applied_by = ai;
\* if r = c there is no call and the row has applied_by = ai_no_change and
\* applied_replicas = c.  Instance: r = 5, c = 3 -> called with 5, applied 5.
C6_AiDispatch ==
    \A k \in DOMAIN rows :
        (Row(k).mode = "ai_scaler" /\ Row(k).ai # NoPrediction) =>
            LET r == Row(k).ai.recommended_replicas
                c == Row(k).current_replicas
                P == PatchesOf(Row(k).iteration)
            IN  IF r # c
                THEN /\ Cardinality(P) = 1
                     /\ \A i \in P :
                          /\ patches[i].requested = r
                          /\ patches[i].ok =>
                               /\ Row(k).applied_replicas = r
                               /\ Row(k).applied_by = "ai"
                ELSE /\ P = {}
                     /\ Row(k).applied_by = "ai_no_change"
                     /\ Row(k).applied_replicas = c

\* the instance r = 5, c = 3, and a later iteration where r = c
C6_Witness ==
    /\ mode = "ai_scaler"
    /\ \E k \in DOMAIN rows :
          /\ Row(k).ai # NoPrediction
          /\ Row(k).ai.recommended_replicas = 5
          /\ Row(k).current_replicas = 3
          /\ Row(k).applied_replicas = 5
          /\ Row(k).applied_by = "ai"
          /\ \E i \in PatchesOf(Row(k).iteration) : patches[i].requested = 5
    /\ \E k \in DOMAIN rows : Row(k).applied_by = "ai_no_change"

\* the applied_by values of the other modes and of the other outcomes of
\* ai_scaler mode
OtherLabels == {"hpa", "observation_only", "ai", "ai_no_change", "none"}

\* C7: in ai_scaler mode, an iteration whose predictor call failed makes no
\* cluster write, records applied_replicas = current replica count, and
\* records an applied_by value that marks the hold for want of a prediction,
\* a label no other mode or outcome uses.
C7_HeldWhenPredictorFails ==
    \A k \in DOMAIN rows :
        (Row(k).mode = "ai_scaler" /\ Row(k).ai = NoPrediction) =>
            /\ PatchesOf(Row(k).iteration) = {}
            /\ Row(k).applied_replicas = Row(k).current_replicas
            /\ Row(k).applied_by \notin OtherLabels

\* C8: when the metrics fetch returns an empty window or raises, the
\* iteration is skipped: no row is written, the simulator is not invoked
\* (both histories unchanged), the predictor is not called and no cluster
\* write is made, from the fetch to the start of the next iteration; the
\* loop then sleeps and goes back to the top of the loop.
C8_SkippedIteration ==
    [][ ( \/ (pc = "fetch" /\ pc' = "skip_sleep")
          \/ pc = "skip_sleep" ) =>
            /\ UNCHANGED <<rows, scale_up_history, scale_down_history,
                           sim_args, hpa_result, patches, dep_replicas>>
            /\ prediction' = NoPrediction
            /\ \A k \in DOMAIN rows' : Row(k)'.iteration # iteration
            /\ PatchesOf(iteration)' = {}
            /\ pc = "skip_sleep" =>
                  /\ pc' = "read"
                  /\ clock' >= iter_start + Interval ]_vars

\* a skipped iteration after one that wrote a row and fed the simulator
C8_Witness ==
    /\ pc = "skip_sleep"
    /\ iteration >= 2
    /\ Len(rows) >= 1
    /\ scale_down_history # <<>>

\* C9: with a positive duration budget the loop stops once the budget has
\* elapsed, whatever the collaborators do: the budget is checked at the end
\* of every iteration, skipped ones included, so no iteration that ends with
\* the budget elapsed is followed by a sleep and another iteration.
C9_BudgetEndsLoop ==
    [][ ( /\ duration_s > 0
          /\ clock >= duration_s
          /\ pc \in {"check", "skip_sleep"} ) => pc' = "done" ]_vars

\* C10: no collaborator failure aborts the control loop: a failure of the
\* cluster read, the HPA status read, the metrics fetch, the simulator call,
\* the predictor call or the cluster write ends at most the current
\* iteration.
C10_LoopNeverAborted == pc # "crashed"

\* C11: a predictor failure does not abort the iteration: the iteration goes
\* on to the dispatch and to the write, and writes exactly one row, which
\* carries the simulator's recommendation and empty AI fields.
C11_PredictorFailureKeepsIteration ==
    [][ /\ (pc = "predict" /\ prediction' = NoPrediction) => pc' = "apply"
        /\ (pc = "apply" /\ prediction = NoPrediction) =>
              /\ pc' = "write_row"
              /\ prediction' = NoPrediction
              /\ rows' = rows
        /\ (pc = "write_row" /\ prediction = NoPrediction) =>
              /\ pc' = "check"
              /\ \A k \in DOMAIN rows : Row(k).iteration # iteration
              /\ Len(rows') = Len(rows) + 1
              /\ SubSeq(rows', 1, Len(rows)) = rows
              /\ LET row == rows'[Len(rows')]
                 IN  /\ row.iteration = iteration
                     /\ row.ai = NoPrediction
                     /\ row.hpa_sim = hpa_result
                     /\ row.hpa_sim.status = "ok"
        /\ (pc = "check" /\ prediction = NoPrediction) => rows' = rows ]_vars

\* a row written after the predictor failed, holding a simulator
\* recommendation that differs from the current count
C11_Witness ==
    /\ pc = "check"
    /\ prediction = NoPrediction
    /\ Len(rows) >= 1
    /\ LET row == rows[Len(rows)]
       IN  /\ row.iteration = iteration
           /\ row.ai = NoPrediction
           /\ row.hpa_sim.status = "ok"
           /\ row.hpa_sim.hpa_sim_desired # row.current_replicas

\* C12: every iteration that is not skipped appends exactly one row, written
\* before the iteration's duration check and before the next iteration
\* starts, and rows already written stay as they are: once an iteration
\* whose metrics were fetched has reached its duration check or has ended,
\* the rows are the earlier rows followed by exactly one row of this
\* iteration, and no iteration has two rows.
C12_OneRowPerIteration ==
    /\ \A k, l \in DOMAIN rows : k < l => Row(k).iteration < Row(l).iteration
    /\ (latest # NoSample /\ pc \in {"check", "sleep", "done", "crashed"}) =>
          /\ Len(rows) >= 1
          /\ Row(Len(rows)).iteration = iteration

-----------------------------------------------------------------------------
(* Properties of the stabilisation histories *)

\* the timestamp of the last compute call
Now == sim_args.timestamp_s

InWindow(history, now, window_s) ==
    \A i \in DOMAIN history :
        now - window_s <= history[i][1] /\ history[i][1] <= now

OrderedByTimestamp(history) ==
    \A i, j \in DOMAIN history : i < j => history[i][1] <= history[j][1]

\* a sequence of calls with non-decreasing timestamps, the last of which
\* returned
AfterOrderedCall == phase = "sim" /\ n_calls >= 1 /\ now_ordered /\ Returned

\* C13: after every compute call at time now, the callers passing
\* non-decreasing now, every entry of both the scale-up and the scale-down
\* history has its timestamp within [now - window of that direction, now],
\* and each history is ordered by timestamp.
C13_BothHistoriesInWindow ==
    AfterOrderedCall =>
        /\ InWindow(scale_up_history, Now, SCALE_UP_STABILIZATION_WINDOW_S)
        /\ InWindow(scale_down_history, Now,
                    SCALE_DOWN_STABILIZATION_WINDOW_S)
        /\ OrderedByTimestamp(scale_up_history)
        /\ OrderedByTimestamp(scale_down_history)

\* C13 (amended): after a compute call at time now, the callers passing
\* non-decreasing now, every entry of the history of the direction the call
\* took has its timestamp within [now - window of that direction, now]; the
\* entries of the other history are not newer than now; each history is
\* ordered by timestamp.
C13_ActiveHistoryInWindow ==
    AfterOrderedCall =>
        /\ hpa_result.hpa_sim_raw_desired > Current =>
              InWindow(scale_up_history, Now,
                       SCALE_UP_STABILIZATION_WINDOW_S)
        /\ hpa_result.hpa_sim_raw_desired < Current =>
              InWindow(scale_down_history, Now,
                       SCALE_DOWN_STABILIZATION_WINDOW_S)
        /\ \A i \in DOMAIN scale_up_history : scale_up_history[i][1] <= Now
        /\ \A i \in DOMAIN scale_down_history :
              scale_down_history[i][1] <= Now
        /\ OrderedByTimestamp(scale_up_history)
        /\ OrderedByTimestamp(scale_down_history)

\* a scale-up call at time 70 after two scale-down calls at time 0: the
\* scale-up history holds the new entry alone, the scale-down history still
\* holds entries older than 70 - 60
C13_Witness ==
    /\ AfterOrderedCall
    /\ n_calls = 3
    /\ Now = 70
    /\ hpa_result.hpa_sim_raw_desired > Current
    /\ Len(scale_up_history) = 1
    /\ Len(scale_down_history) = 2
    /\ ~InWindow(scale_down_history, Now, SCALE_DOWN_STABILIZATION_WINDOW_S)

\* C14: on the hold path (raw_desired = current_replicas) compute returns a
\* stabilised value equal to current_replicas and leaves both histories as
\* they were: no entry recorded, none pruned.
C14_HoldLeavesHistories ==
    [][ ( /\ phase = "sim"
          /\ n_calls' = n_calls + 1
          /\ Returned'
          /\ hpa_result'.hpa_sim_raw_desired = Current' ) =>
            /\ hpa_result'.hpa_sim_desired = Current'
            /\ hpa_result'.hpa_sim_action = "no_change"
            /\ scale_up_history' = scale_up_history
            /\ scale_down_history' = scale_down_history ]_vars

\* a hold call at time 70 on a simulator whose histories both hold entries
\* of time 0, which a pruning in either direction would remove
C14_Witness ==
    /\ phase = "sim" /\ n_calls = 3 /\ Returned
    /\ Now = 70
    /\ hpa_result.hpa_sim_raw_desired = Current
    /\ hpa_result.hpa_sim_desired = Current
    /\ \E i \in DOMAIN scale_up_history : scale_up_history[i][1] = 0
    /\ \E i \in DOMAIN scale_down_history : scale_down_history[i][1] = 0

-----------------------------------------------------------------------------
(* Relations between two compute calls *)

\* the step is a call that returned and follows a call that returned
TwoReturned == Returned /\ Returned' /\ n_calls' = n_calls + 1

SameBut(field) ==
    \A f \in DOMAIN sim_args : f # field => sim_args'[f] = sim_args[f]

\* C16: with current_replicas, the request and the target utilisation
\* fixed, a larger usage of a metric never gives a smaller desired count for
\* that metric (hpa_sim_cpu_desired, hpa_sim_mem_desired), also when the
\* target is <= 0.
C16_MonotonicRatio ==
    [][ (phase = "fn" /\ TwoReturned) =>
          /\ ( /\ SameBut("cpu_millicores")
               /\ sim_args.cpu_millicores <= sim_args'.cpu_millicores ) =>
                   hpa_result.hpa_sim_cpu_desired
                       <= hpa_result'.hpa_sim_cpu_desired
          /\ ( /\ SameBut("memory_mebibytes")
               /\ sim_args.memory_mebibytes <= sim_args'.memory_mebibytes ) =>
                   hpa_result.hpa_sim_mem_desired
                       <= hpa_result'.hpa_sim_mem_desired ]_vars

\* CPU usage raised from 0 to 30 m at 4 replicas, request 100 m: the CPU
\* desired count goes from 0 to 2
C16_Witness ==
    /\ phase = "fn" /\ n_calls = 2 /\ Returned
    /\ sim_args.current_replicas = 4
    /\ sim_args.cpu_millicores = 30
    /\ sim_args.cpu_request_millicores = 100
    /\ hpa_result.hpa_sim_cpu_desired = 2
    /\ scale_down_history = <<<<0, 1>>, <<0, 2>>>>

\* a target <= 0: the desired count stays at current_replicas whatever the
\* usage
C16_WitnessNoTarget ==
    /\ phase = "fn" /\ n_calls = 2 /\ Returned
    /\ sim_args.cpu_request_millicores = -100
    /\ sim_args.cpu_millicores = 600
    /\ hpa_result.hpa_sim_cpu_desired = Max2(1, sim_args.current_replicas)

\* the history and the window of the direction the last call took
ActiveHistory ==
    IF hpa_result.hpa_sim_raw_desired > Current THEN scale_up_history
    ELSE scale_down_history

ActiveWindow ==
    IF hpa_result.hpa_sim_raw_desired > Current
    THEN SCALE_UP_STABILIZATION_WINDOW_S
    ELSE SCALE_DOWN_STABILIZATION_WINDOW_S

\* the step repeats the last call, which took a direction, with the same
\* arguments at a strictly later time within that direction's window, in a
\* sequence of calls with non-decreasing timestamps
RepeatedInWindow ==
    /\ phase = "sim"
    /\ TwoReturned
    /\ now_ordered'
    /\ SameBut("timestamp_s")
    /\ hpa_result.hpa_sim_raw_desired # Current
    /\ Now < Now'
    /\ Now' - Now <= ActiveWindow

\* C17: calling compute again with identical arguments and a strictly
\* larger now within the same window leaves the number of entries retained
\* for the active direction no smaller, and the stabilised value as it was
\* (identical arguments introduce no new extreme).
C17_RepeatKeepsStabilised ==
    [][ RepeatedInWindow =>
          /\ Len(ActiveHistory') >= Len(ActiveHistory)
          /\ hpa_result'.hpa_sim_desired = hpa_result.hpa_sim_desired ]_vars

\* C17 (amended): the same, provided no entry retained for the active
\* direction after the earlier call is older than now - window at the later
\* call; the later call then adds its entry to the entries retained and
\* returns the same stabilised value.
C17_RepeatKeepsStabilisedUnexpired ==
    [][ ( /\ RepeatedInWindow
          /\ \A i \in DOMAIN ActiveHistory :
                ActiveHistory[i][1] >= Now' - ActiveWindow ) =>
          /\ Len(ActiveHistory') = Len(ActiveHistory) + 1
          /\ hpa_result'.hpa_sim_desired = hpa_result.hpa_sim_desired ]_vars

\* a scale-down call at time 10 repeated at time 70 with two entries of time
\* 10 retained, the larger of which still holds the stabilised value up
C17_Witness ==
    /\ phase = "sim" /\ n_calls = 3 /\ now_ordered /\ Returned
    /\ Now = 70
    /\ hpa_result.hpa_sim_raw_desired < Current
    /\ Len(scale_down_history) = 3
    /\ scale_down_history[1][1] = 10
    /\ scale_down_history[2] = <<10, hpa_result.hpa_sim_raw_desired>>
    /\ scale_down_history[3] = <<70, hpa_result.hpa_sim_raw_desired>>
    /\ hpa_result.hpa_sim_desired = scale_down_history[1][2]
    /\ hpa_result.hpa_sim_desired > hpa_result.hpa_sim_raw_desired

-----------------------------------------------------------------------------
(* The action label and the raw direction *)

\* C18: the action label is independent of the raw direction: a compute
\* call is reached whose raw_desired exceeds current_replicas and whose
\* action label is no_change, the stabilised value taken from the history
\* not exceeding current_replicas.  As a property of a finished run: the
\* calls made on a simulator include such a call.
C18_RawUpCanHold == (phase = "sim" /\ n_calls = MaxCalls) => raw_up_held

\* C18 (amended): no compute call whose raw_desired exceeds current_replicas
\* is labelled no_change: the stabilised value is the largest entry of the
\* scale-up history, which holds the call's own entry, so it is at least
\* raw_desired and the label is scale_up.
C18_RawUpIsScaleUp ==
    /\ ~raw_up_held
    /\ (Returned /\ hpa_result.hpa_sim_raw_desired > Current) =>
          /\ hpa_result.hpa_sim_desired >= hpa_result.hpa_sim_raw_desired
          /\ hpa_result.hpa_sim_desired > Current
          /\ hpa_result.hpa_sim_action = "scale_up"

\* a third scale-up call at time 0: the history holds three entries and the
\* stabilised value is an earlier, larger one
C18_Witness ==
    /\ phase = "sim" /\ n_calls = 3 /\ Returned
    /\ hpa_result.hpa_sim_raw_desired > Current
    /\ Len(scale_up_history) = 3
    /\ hpa_result.hpa_sim_desired > hpa_result.hpa_sim_raw_desired
    /\ hpa_result.hpa_sim_action = "scale_up"

-----------------------------------------------------------------------------
(* The modes and the live HPA *)

\* C19: in comparison mode the program never changes the cluster: neither
\* the setup before the loop nor any iteration creates, deletes or patches
\* the Deployment's replica count or the HPA object.
C19_ComparisonNeverMutates ==
    [][ mode = "comparison" =>
          /\ dep_replicas' = dep_replicas
          /\ hpa_exists' = hpa_exists
          /\ patches' = patches ]_vars

\* C20: in ai_scaler mode the live HPA is absent whenever the loop applies a
\* replica count: the setup removes it before the first iteration, and no
\* scale_deployment call is made while the HPA object exists.
C20_NoHpaWhenAiApplies ==
    [][ mode = "ai_scaler" =>
          /\ pc = "setup" => ~hpa_exists'
          /\ patches' # patches => ~hpa_exists ]_vars

-----------------------------------------------------------------------------
(* Startup and contract violations *)

\* C21: an invalid configuration is fatal at startup: a run configured with
\* an unknown mode or with min_replicas > max_replicas is rejected before
\* the setup step and before any iteration executes.
C21_InvalidConfigRejected ==
    (mode \notin Modes \/ min_replicas > max_replicas) =>
        /\ pc \in {"parse_args", "usage_error"}
        /\ iteration = 0
        /\ rows = <<>>

\* C22: a contract violation fed to the simulator is fatal: a compute call
\* with a negative replica count, or with a now earlier than the now of a
\* previous call, fails instead of returning a recommendation.
C22_ContractViolationFails ==
    [][ ( /\ phase = "fn"
          /\ n_calls' = n_calls + 1
          /\ \/ sim_args'.current_replicas < 0
             \/ n_calls >= 1 /\ sim_args'.timestamp_s < sim_args.timestamp_s )
        => ~Returned' ]_vars

-----------------------------------------------------------------------------
(* The dispatch and the cluster write *)

\* the positions of an iteration after its dispatch
AfterApply == {"write_row", "check", "sleep", "done", "read"}
\* the positions of an iteration after its row was written
AfterWriteRow == {"check", "sleep", "done", "read"}

\* C23: when the cluster write fails, scale_deployment reports false
\* without raising (the iteration goes on and writes its row, the replica
\* count is not changed), and the dispatcher treats the recommendation as
\* not applied: the row has applied_replicas = current replica count and an
\* applied_by other than ai.
C23_FailedWriteNotApplied ==
    \A i \in DOMAIN patches :
        ~patches[i].ok =>
            /\ patches[i].iteration = iteration =>
                  /\ pc \in AfterApply
                  /\ applied.applied_replicas = current_replicas
                  /\ applied.applied_by # "ai"
                  /\ pc \in AfterWriteRow =>
                        \E k \in DOMAIN rows : Row(k).iteration = iteration
            /\ patches[i].iteration < iteration =>
                  \E k \in DOMAIN rows :
                      Row(k).iteration = patches[i].iteration
            /\ \A k \in DOMAIN rows :
                  Row(k).iteration = patches[i].iteration =>
                      /\ Row(k).applied_replicas = Row(k).current_replicas
                      /\ Row(k).applied_by # "ai"

\* a failed write of 5 replicas at 3 replicas: the row holds 3, the
\* Deployment is still at 3
C23_Witness ==
    /\ pc = "check"
    /\ dep_replicas = 3
    /\ \E i \in PatchesOf(iteration) :
          ~patches[i].ok /\ patches[i].requested = 5
    /\ Len(rows) >= 1
    /\ Row(Len(rows)).iteration = iteration
    /\ Row(Len(rows)).current_replicas = 3
    /\ Row(Len(rows)).applied_replicas = 3
    /\ Row(Len(rows)).applied_by = "none"

-----------------------------------------------------------------------------
(* The order of the steps *)

\* C24: iterations are strictly sequential: an iteration starts only at the
\* top of the loop, after the one before it has ended (slept after its row,
\* or skipped), never while one is in progress, the awaited predictor call
\* included; so the stabilisation histories are touched by one iteration at
\* a time, in its simulator step.
C24_IterationsSequential ==
    [][ /\ iteration' # iteration =>
              /\ pc = "read"
              /\ iteration' = iteration + 1
              /\ pc' = "fetch"
        /\ pc' = "read" => pc \in {"setup", "sleep", "skip_sleep"}
        /\ pc \in {"fetch", "compute", "hpa_status", "predict", "apply",
                   "write_row", "check"} => iteration' = iteration
        /\ <<scale_up_history, scale_down_history>>'
               # <<scale_up_history, scale_down_history>> =>
              /\ pc = "compute"
              /\ iteration' = iteration ]_vars

\* a second iteration suspended in the predictor call, the first one having
\* written its row and fed the simulator
C24_Witness ==
    /\ pc = "predict"
    /\ iteration = 2
    /\ Len(rows) = 1
    /\ Row(1).iteration = 1
    /\ Len(scale_down_history) = 2

\* C25: with a total duration of zero the loop is unbounded: it never ends
\* on its own, whatever the elapsed time and the outcomes of its
\* iterations; only an interrupt from outside stops it.
C25_UnboundedNeverEnds ==
    (duration_s = 0 /\ mode \in Modes) => pc \notin {"done", "crashed"}

\* C26: within every iteration that is not skipped the steps come in the
\* order cluster-state read, metrics fetch, simulator compute, predictor
\* call, mode dispatch, (conditional) cluster write, record; at most one
\* cluster write is made per iteration, and it precedes the iteration's
\* record.
C26_StepOrder ==
    [][ /\ pc = "read" => pc' = "fetch"
        /\ pc = "fetch" => pc' \in {"compute", "skip_sleep"}
        /\ pc = "compute" => pc' \in {"hpa_status", "crashed"}
        /\ pc = "hpa_status" => pc' = "predict"
        /\ pc = "predict" => pc' = "apply"
        /\ pc = "apply" => pc' = "write_row"
        /\ pc = "write_row" => pc' = "check"
        /\ current_replicas' # current_replicas => pc = "read"
        /\ latest' # latest => pc \in {"read", "fetch"}
        /\ hpa_result' # hpa_result => pc = "compute"
        /\ prediction' # prediction => pc \in {"read", "predict"}
        /\ patches' # patches =>
              /\ pc = "apply"
              /\ Len(patches') = Len(patches) + 1
              /\ PatchesOf(iteration) = {}
              /\ \A k \in DOMAIN rows' : Row(k)'.iteration # iteration
        /\ rows' # rows => pc = "write_row" ]_vars

\* an iteration that made a cluster write and then wrote its row, after an
\* earlier iteration that did the same
C26_Witness ==
    /\ pc = "check"
    /\ iteration = 2
    /\ Len(rows) = 2
    /\ Cardinality(PatchesOf(1)) = 1
    /\ Cardinality(PatchesOf(2)) = 1
    /\ Row(2).hpa_sim.status = "ok"
    /\ Row(2).ai # NoPrediction

-----------------------------------------------------------------------------
(* The stabilised value and the pruning *)

SetMax(S) == CHOOSE m \in S : \A x \in S : x <= m

\* the raw_desired of the scale-down-path calls made at or after time t
DownCallsSince(t) ==
    {down_calls[i][2] : i \in {j \in DOMAIN down_calls : down_calls[j][1] >= t}}

\* C27: on a scale-down path at time now, timestamps non-decreasing across
\* calls, hpa_sim_desired is the maximum raw_desired over all the
\* scale-down-path calls, the current one included, whose timestamp is
\* >= now - 60 s, clamped to [min_replicas, max_replicas]; calls earlier than
\* that do not influence the result.
C27_DownIsMaxOverWindow ==
    (AfterOrderedCall /\ hpa_result.hpa_sim_raw_desired < Current) =>
        /\ hpa_result.hpa_sim_raw_desired
               \in DownCallsSince(Now - SCALE_DOWN_STABILIZATION_WINDOW_S)
        /\ hpa_result.hpa_sim_desired =
               Clamp(SetMax(DownCallsSince(
                         Now - SCALE_DOWN_STABILIZATION_WINDOW_S)))

\* a scale-down call at time 70 after scale-down calls at time 0 and time
\* 10: the call of time 0 had the larger raw_desired and no longer counts,
\* the call of time 10 still does
C27_Witness ==
    /\ AfterOrderedCall
    /\ n_calls = 3
    /\ Now = 70
    /\ hpa_result.hpa_sim_raw_desired < Current
    /\ Len(down_calls) = 3
    /\ down_calls[1][1] = 0
    /\ down_calls[2][1] = 10
    /\ down_calls[1][2] > down_calls[2][2]
    /\ down_calls[2][2] > down_calls[3][2]
    /\ hpa_result.hpa_sim_desired = down_calls[2][2]

\* the entries of a history that are not older than now - window_s, in
\* their order
NotOlderThan(history, now, window_s) ==
    SelectSeq(history, LAMBDA entry : entry[1] >= now - window_s)

\* C28: _prune_history(history, now, window) removes exactly the entries
\* with timestamp < now - window and keeps every other entry in its
\* original order, an entry whose timestamp equals now - window and
\* duplicate (timestamp, value) entries included: after a call on a
\* direction path that direction's history is the history before the call
\* with the call's entry appended, less the entries older than the cutoff.
C28_PruneExact ==
    [][ (phase = "sim" /\ n_calls' = n_calls + 1 /\ Returned') =>
          /\ hpa_result'.hpa_sim_raw_desired > Current' =>
                scale_up_history' =
                    NotOlderThan(
                        Append(scale_up_history,
                               <<Now', hpa_result'.hpa_sim_raw_desired>>),
                        Now', SCALE_UP_STABILIZATION_WINDOW_S)
          /\ hpa_result'.hpa_sim_raw_desired < Current' =>
                scale_down_history' =
                    NotOlderThan(
                        Append(scale_down_history,
                               <<Now', hpa_result'.hpa_sim_raw_desired>>),
                        Now', SCALE_DOWN_STABILIZATION_WINDOW_S) ]_vars

\* a scale-down call at time 70 on a history with an entry of time 0 and an
\* entry of time 10: the first is removed, the second, whose timestamp is
\* the cutoff 70 - 60, is kept in front of the new entry
C28_Witness ==
    /\ phase = "sim" /\ n_calls = 3 /\ Returned
    /\ Now = 70
    /\ hpa_result.hpa_sim_raw_desired < Current
    /\ Len(down_calls) = 3
    /\ down_calls[1][1] = 0
    /\ down_calls[2][1] = 10
    /\ scale_down_history = <<down_calls[2], down_calls[3]>>

\* C29: whenever compute reads the maximum of a direction's history, that
\* history is not empty: the entry just recorded for the call survives the
\* pruning, for any sequence of calls and timestamps, non-monotonic ones
\* included, so compute never fails on an empty collection; a call fails
\* only on a non-finite usage.
C29_HistoryNotEmptyWhenRead ==
    (phase = "sim" /\ n_calls >= 1) =>
        /\ ~Returned =>
              \/ MetricRaises(sim_args.cpu_millicores,
                              sim_args.cpu_request_millicores, cpu_target_pct)
              \/ MetricRaises(sim_args.memory_mebibytes,
                              sim_args.memory_request_mebibytes,
                              mem_target_pct)
        /\ (Returned /\ hpa_result.hpa_sim_raw_desired # Current) =>
              /\ ActiveHistory # <<>>
              /\ ActiveHistory[Len(ActiveHistory)]
                     = <<Now, hpa_result.hpa_sim_raw_desired>>

\* a scale-up call at time 0 after a scale-up call at time 70: the entry of
\* time 70 is kept as well, being newer than the call's own
C29_Witness ==
    /\ phase = "sim" /\ n_calls >= 2 /\ Returned
    /\ ~now_ordered
    /\ Now = 0
    /\ hpa_result.hpa_sim_raw_desired > Current
    /\ Len(scale_up_history) = 2
    /\ scale_up_history[1][1] = 70


\* C30: in hpa_only mode every row has applied_by = hpa, and its
\* applied_replicas is the desired replica count of the live HPA status read
\* in that iteration, or the current replica count when that status is the
\* empty dict.  Instance: status desired 4, current 1 -> applied 4; no
\* status, current 1 -> applied 1.
C30_HpaOnlyMirrorsLiveHpa ==
    mode = "hpa_only" =>
        \A k \in DOMAIN rows :
            /\ Row(k).applied_by = "hpa"
            /\ Row(k).applied_replicas =
                  IF Row(k).hpa_status = EmptyDict
                  THEN Row(k).current_replicas
                  ELSE Row(k).hpa_status.hpa_desired_replicas

\* two rows of one hpa_only run: one mirrors a live status whose desired
\* count differs from the current count, the other falls back
C30_Witness ==
    /\ mode = "hpa_only"
    /\ \E k \in DOMAIN rows :
          /\ Row(k).hpa_status # EmptyDict
          /\ Row(k).hpa_status.hpa_desired_replicas # Row(k).current_replicas
          /\ Row(k).applied_replicas = Row(k).hpa_status.hpa_desired_replicas
    /\ \E k \in DOMAIN rows :
          /\ Row(k).hpa_status = EmptyDict
          /\ Row(k).applied_replicas = Row(k).current_replicas


-----------------------------------------------------------------------------
(* Properties of OllamaPredictor *)

PredictReturned == predict_out # NoResult /\ predict_out.status = "ok"
PredictRaised == predict_out # NoResult /\ predict_out.status = "raised"
AllMalformed(rs) == \A i \in DOMAIN rs : parseFails(rs[i])

\* C31: one call of predict makes at most 3 requests; it returns exactly
\* when a response parses and validates, at the first such response (every
\* response before it was malformed, no request follows it), and the value
\* returned is that response's count clamped; after a third malformed
\* response it makes no further request and fails with RuntimeError.
\* Instance: replies no-JSON, bad JSON, {recommended_replicas: 3} -> three
\* requests, returns 3; three malformed replies -> RuntimeError.
C31_PredictBounded ==
    phase = "predict" =>
        /\ n_requests <= 3
        /\ Len(responses) <= n_requests
        /\ PredictReturned =>
              /\ responses # <<>>
              /\ n_requests = Len(responses)
              /\ ~parseFails(responses[Len(responses)])
              /\ AllMalformed(SubSeq(responses, 1, Len(responses) - 1))
              /\ predict_out.recommended_replicas =
                    Clamp(responses[Len(responses)].recommended_replicas)
        /\ ~PredictReturned => AllMalformed(responses)
        /\ (Len(responses) = 3 /\ AllMalformed(responses)) =>
              /\ n_requests = 3
              /\ predict_out = NoResult \/ predict_out.error = "RuntimeError"
        /\ (PredictRaised /\ predict_out.error = "RuntimeError") =>
              /\ Len(responses) = 3
              /\ AllMalformed(responses)

\* a call that returns on its third request, after two malformed responses
C31_Witness ==
    /\ phase = "predict"
    /\ PredictReturned
    /\ n_requests = 3
    /\ parseFails(responses[1]) /\ parseFails(responses[2])
    /\ predict_out.recommended_replicas = 10

\* a call that fails after the third malformed response
C31_WitnessGiveUp ==
    /\ phase = "predict"
    /\ PredictRaised
    /\ predict_out.error = "RuntimeError"
    /\ n_requests = 3


-----------------------------------------------------------------------------
(* Timing of the control loop *)

\* C32: the sleep that ends an iteration lasts
\* max(0, interval - time spent in the iteration), which is never negative
\* and is 0 when the work took the interval or longer; it is followed by
\* exactly one new iteration, which starts when the sleep ends, so two
\* consecutive iteration starts are never less than the interval apart (an
\* overrun is not made up by a burst of iterations).  Instance: interval
\* 30 s, iteration 1 starts at 0 and its work ends at 60 -> sleep 0,
\* iteration 2 starts at 60.
C32_OverrunStartsNextAtOnce ==
    [][ /\ (pc \in {"sleep", "skip_sleep"}) =>
              /\ clock' - clock = Max2(0, Interval - (clock - iter_start))
              /\ clock' >= clock
              /\ (clock - iter_start >= Interval) => clock' = clock
              /\ pc' = "read"
              /\ iteration' = iteration
        /\ (pc = "read" /\ iteration >= 1 /\ iteration' # iteration) =>
              /\ iteration' = iteration + 1
              /\ iter_start' = clock
              /\ iter_start' - iter_start >= Interval
      ]_vars

\* the second iteration has started at 60 s, right after a first iteration
\* whose work took 60 s
C32_Witness ==
    /\ phase = "loop"
    /\ pc = "fetch"
    /\ iteration = 2
    /\ iter_start = 60
    /\ clock = 60


-----------------------------------------------------------------------------
(* The predictor's formula baseline and the simulator *)

\* C33: for current_replicas >= 1 and the same usage, requests and
\* configuration, predict_from_df's baseline is computed and equals the
\* hpa_sim_raw_desired of compute, zero requests and a zero target
\* utilisation included.  Instance: current 2, cpu 30 m of a 100 m request,
\* memory 40 of 100 MiB, --cpu-target 0 -> compute returns raw_desired 2
\* (cpu ratio 1.0, memory ratio 0.5).
C33_BaselineEqualsRawDesired ==
    (phase = "fn" /\ n_calls >= 1 /\ Returned
       /\ sim_args.current_replicas >= 1) =>
        /\ formula_baseline.status = "ok"
        /\ formula_baseline.baseline = hpa_result.hpa_sim_raw_desired


-----------------------------------------------------------------------------
(* Direction of a call and its outcome *)

\* C34: a compute call on the scale-down path (raw_desired below the
\* current replica count) returns a stabilised count that does not exceed
\* the current replica count, so its action is scale_down or no_change,
\* whatever calls came before it.  Instance: limits 1..10; a call at 11
\* replicas on target (raw 10), then within 60 s a call at 4 replicas at
\* half the target (raw 2) -> the second call must not return more than 4.
C34_DownPathNeverScalesUp ==
    (phase = "sim" /\ Returned
       /\ hpa_result.hpa_sim_raw_desired < Current) =>
        /\ hpa_result.hpa_sim_desired <= Current
        /\ hpa_result.hpa_sim_action \in {"scale_down", "no_change"}


-----------------------------------------------------------------------------
(* What is written to the cluster *)

\* the row of the iteration of a scale_deployment call reports count n
RecordedAs(call, n) ==
    \A k \in DOMAIN rows :
        Row(k).iteration = call.iteration => Row(k).applied_replicas = n

\* C35: every replica count that a scale_deployment call of the loop
\* patched into the Deployment lies within [min_replicas, max_replicas] and
\* is the applied_replicas of the row of that iteration.  Instance:
\* --min-replicas 5 --max-replicas 2, prediction clamped to 5 -> 5 is
\* patched and recorded, and has to be at most 2.
C35_WrittenInRangeAndRecorded ==
    phase = "loop" =>
        \A i \in DOMAIN patches :
            patches[i].ok =>
                /\ min_replicas <= patches[i].replicas
                /\ patches[i].replicas <= max_replicas
                /\ RecordedAs(patches[i], patches[i].replicas)


-----------------------------------------------------------------------------
(* Stabilisation against the raw recommendation *)

\* C36: with min_replicas <= max_replicas, every compute call of every
\* sequence of calls returns hpa_sim_desired >= hpa_sim_raw_desired.
\* Instance: at 4 replicas, raw 3 at t = 0 and raw 2 at t = 10 -> the second
\* call returns desired 3 >= 2.
C36_DesiredAtLeastRaw ==
    (phase = "sim" /\ min_replicas <= max_replicas /\ Returned) =>
        hpa_result.hpa_sim_desired >= hpa_result.hpa_sim_raw_desired

\* a call whose stabilised count is above its raw count
C36_Witness ==
    /\ phase = "sim" /\ n_calls >= 2 /\ Returned
    /\ min_replicas <= max_replicas
    /\ hpa_result.hpa_sim_raw_desired < Current
    /\ hpa_result.hpa_sim_desired > hpa_result.hpa_sim_raw_desired


-----------------------------------------------------------------------------
(* Frame of a compute call *)

\* C37: a compute call on the scale-up path leaves the scale-down history
\* as it was, and a call on the scale-down path leaves the scale-up history
\* as it was; the call's record is the last entry of the history of its own
\* direction.  Instance: scale-up history <<(0, 8)>>, then a scale-down-path
\* call at t = 70 -> the scale-up history is still <<(0, 8)>>.
C37_OtherHistoryUntouched ==
    [][ (phase = "sim" /\ n_calls' = n_calls + 1 /\ Returned') =>
            /\ (hpa_result'.hpa_sim_raw_desired > Current') =>
                  /\ scale_down_history' = scale_down_history
                  /\ scale_up_history'[Len(scale_up_history')] =
                        <<Now', hpa_result'.hpa_sim_raw_desired>>
            /\ (hpa_result'.hpa_sim_raw_desired < Current') =>
                  /\ scale_up_history' = scale_up_history
                  /\ scale_down_history'[Len(scale_down_history')] =
                        <<Now', hpa_result'.hpa_sim_raw_desired>>
      ]_vars

\* after a scale-down-path call the scale-up history still holds an entry
\* older than the call
C37_Witness ==
    /\ phase = "sim" /\ n_calls >= 2 /\ Returned
    /\ hpa_result.hpa_sim_raw_desired < Current
    /\ scale_up_history # <<>>
    /\ scale_up_history[1][1] < Now


-----------------------------------------------------------------------------
(* Properties of cpu_stressor *)

\* C38: with --max-pods N, at every point of the run at most N pods have
\* had workers started on them, and every such pod has exactly --workers
\* workers, with ids no other pod has.  Instance: --max-pods 1; kubectl
\* lists webapp-a, webapp-b in one cycle and webapp-b, webapp-a in the
\* next -> only webapp-a may be stressed.
C38_MaxPodsLimitsStress ==
    (phase = "stress" /\ args_max_pods # 0) =>
        /\ Cardinality(DOMAIN active) <= args_max_pods
        /\ \A p \in DOMAIN active :
              /\ Len(active[p]) = args_workers
              /\ \A q \in DOMAIN active :
                    \A i \in DOMAIN active[p], j \in DOMAIN active[q] :
                        active[p][i] = active[q][j] => (p = q /\ i = j)


-----------------------------------------------------------------------------
(* Properties of load_generator *)

\* C39: at every point of run, total = ok + err and total <= requests_sent
\* (every request that is not counted is still pending), and once run has
\* returned, after the duration or a stop signal, no task is pending and
\* total = requests_sent.  Instance: three requests, one answered 200, one
\* answered 500, one timed out -> total 3, ok 1, err 2 when run returns.
C39_EveryRequestCounted ==
    phase = "load" =>
        /\ counters.total = counters.ok + counters.err
        /\ counters.total <= requests_sent
        /\ load_pc \in {"returned", "exited"} =>
              /\ pending = {}
              /\ counters.total = requests_sent

\* run has returned after a stop signal with every kind of outcome counted
C39_Witness ==
    /\ phase = "load"
    /\ load_pc = "returned"
    /\ stop
    /\ requests_sent = 3
    /\ counters = [total |-> 3, ok |-> 1, err |-> 2]

\* C40: when the port has not opened by the 5 s deadline, the kubectl
\* process is terminated and main ends with SystemExit 'Port-forward
\* failed', no request having been sent.  Instance: every connection
\* attempt is refused for 5 s -> kubectl terminated, exit message
\* 'Port-forward failed: ...'.
C40_PortForwardTimeoutExits ==
    (phase = "load" /\ load_pc = "exited"
       /\ pf_elapsed >= PortForwardDeadline) =>
        /\ pf_proc = "terminated"
        /\ exit_status = "SystemExit: Port-forward failed"
        /\ requests_sent = 0

=============================================================================
